---------------------------- MODULE Spec2Model ----------------------------
(***************************************************************************)
(* Tribute webhook ingestion (bot/services/tribute_service.py).            *)
(*                                                                         *)
(* Every delivery of a webhook is one asyncio task running                 *)
(* TributeService.webhook_route.  A task gives up control only at an await *)
(* so the model has one action per awaited call that reads or writes       *)
(* state other tasks can see, and the tasks of NumReq deliveries           *)
(* interleave at those points.  The persistence layer (db.dal), the        *)
(* activation and referral collaborators and the bot are not part of the   *)
(* service: each call to them returns one of the results its interface     *)
(* allows or raises, chosen nondeterministically.  Reads of the            *)
(* persistence layer are taken to succeed; writes and commits may fail.    *)
(***************************************************************************)
EXTENDS Naturals, Integers, Sequences, FiniteSets, TLC

\* Number of webhook deliveries (asyncio tasks) in a behaviour.
NumReq == 2
\* Length of a hex digest in characters (64 for SHA-256, scaled down).
DigestLen == 2

Reqs == 1..NumReq

---------------------------------------------------------------------------
(* Strings of the signature header: sequences of one-character strings.    *)
(* "e_acute" stands for a character outside ASCII.                         *)

HexDigits ==
    <<"0", "1", "2", "3", "4", "5", "6", "7", "8", "9",
      "a", "b", "c", "d", "e", "f">>

UpperHex == {"A", "B", "C", "D", "E", "F"}

NonAsciiChar == "e_acute"

Alphabet == {HexDigits[i] : i \in 1..16} \cup UpperHex \cup {"g", NonAsciiChar}

\* str.lower() on one character
LowerChar(c) ==
    CASE c = "A" -> "a" [] c = "B" -> "b" [] c = "C" -> "c"
      [] c = "D" -> "d" [] c = "E" -> "e" [] c = "F" -> "f"
      [] c = "R" -> "r" [] c = "S" -> "s" [] c = "U" -> "u"
      [] OTHER -> c

\* str.upper() on one character
UpperChar(c) ==
    CASE c = "a" -> "A" [] c = "b" -> "B" [] c = "c" -> "C"
      [] c = "d" -> "D" [] c = "e" -> "E" [] c = "f" -> "F"
      [] c = "g" -> "G"
      [] c = "r" -> "R" [] c = "s" -> "S" [] c = "u" -> "U"
      [] OTHER -> c

lower(s) == [i \in DOMAIN s |-> LowerChar(s[i])]

IsAscii(s) == \A i \in DOMAIN s : s[i] # NonAsciiChar

\* The secrets: "" is TRIBUTE_API_KEY unset.
Keys == {"", "k1", "k2"}

KeyNum(key) == CASE key = "k1" -> 1 [] key = "k2" -> 2 [] OTHER -> 0

\* hmac.new(key, body, sha256).hexdigest(): a fixed-length lowercase hex
\* string that is a function of the key and of the body (bodies are numbered).
hexdigest(key, body) ==
    [i \in 1..DigestLen |->
        HexDigits[((KeyNum(key) * 5 + body * 3 + i * 7) % 16) + 1]]

\* hmac.compare_digest on two str: raises TypeError when either holds a
\* character outside ASCII, else tells whether they are equal.
compare_digest(a, b) ==
    IF ~IsAscii(a) \/ ~IsAscii(b) THEN "TypeError"
    ELSE IF a = b THEN "True" ELSE "False"

\* TributeService._verify_signature: "True", "False", or "TypeError" when
\* compare_digest raises.
_verify_signature(key, body, signature) ==
    IF key = "" THEN "False"
    ELSE IF signature = <<>> THEN "False"
    ELSE compare_digest(lower(hexdigest(key, body)), lower(signature))

---------------------------------------------------------------------------
(* Webhook bodies.  A body is known by its number in EventList; 0 is a     *)
(* request whose body cannot be read.  doc tells what json.loads makes of  *)
(* the bytes, payload whether data["payload"] is an object or null.        *)
(* telegram_user_id is kept as the text of the JSON value: "" is an        *)
(* absent, null, empty or zero value, "inf" a number beyond the floats     *)
(* (1e999).  currency is a string of characters, Absent or JsonNull.       *)

\* payload.get(key, default) finds no such key
Absent == <<>>

\* a JSON value that is not a string
JsonNull == <<"null">>

usd == <<"u", "s", "d">>

rub == <<"r", "u", "b">>

\* The fields of a purchase of product 10 by provider user 7.
Purchase ==
    [doc |-> "object", name |-> "new_digital_product", payload |-> "object",
     telegram_user_id |-> "1", product_id |-> 10, user_id |-> 7,
     created_at |-> 1, subscription_id |-> 0, period_id |-> 0,
     period |-> "monthly", amount |-> 500, currency |-> usd]

\* The fields of a payment of period 1 of subscription 3.
Subscription ==
    [doc |-> "object", name |-> "newSubscription", payload |-> "object",
     telegram_user_id |-> "1", product_id |-> 0, user_id |-> 7,
     created_at |-> 2, subscription_id |-> 3, period_id |-> 1,
     period |-> "yearly", amount |-> 300, currency |-> rub]

EventList ==
    << Purchase,
       Subscription,
       [Purchase EXCEPT !.name = "digitalProductRefund", !.created_at = 3],
       [Purchase EXCEPT !.telegram_user_id = "", !.created_at = 4],
       [Purchase EXCEPT !.doc = "malformed", !.name = ""],
       [Purchase EXCEPT !.doc = "not_utf8", !.name = ""],
       [Subscription EXCEPT !.telegram_user_id = ""],
       [Subscription EXCEPT !.telegram_user_id = "inf"],
       [Purchase EXCEPT !.telegram_user_id = "abc"],
       [Purchase EXCEPT !.telegram_user_id = "", !.currency = JsonNull],
       [Purchase EXCEPT !.name = "digitalProductRefund", !.payload = "null"],
       [Purchase EXCEPT !.name = "", !.payload = "null"],
       [Subscription EXCEPT !.name = "cancelledSubscription"],
       [Purchase EXCEPT !.telegram_user_id = "2"],
       [Subscription EXCEPT !.name = "renewedSubscription",
                            !.created_at = 5] >>

Bodies == 1..Len(EventList)

SubscriptionNames ==
    {"newSubscription", "renewedSubscription",
     "new_subscription", "renewed_subscription"}

CancelledNames == {"cancelledSubscription", "cancelled_subscription"}

\* int(telegram_user_id) succeeds
IntCoercible(t) == t \in {"1", "2"}

\* The exception int(telegram_user_id) raises: ValueError for text that is
\* no number, OverflowError for an infinite float, "none" when it succeeds.
IntRaises(t) ==
    CASE t = "abc" -> "ValueError" [] t = "inf" -> "OverflowError"
      [] OTHER -> "none"

IntOf(t) == CASE t = "1" -> 1 [] t = "2" -> 2 [] OTHER -> 0

\* The key the provider signs with.
ProviderKey == "k1"

\* s with its last character replaced by another hex digit
FlipLast(s) == [s EXCEPT ![Len(s)] = IF @ = "0" THEN "1" ELSE "0"]

\* s with its last character replaced by one outside ASCII
WithNonAscii(s) == [s EXCEPT ![Len(s)] = NonAsciiChar]

\* The trbt-signature header values a delivery of body b may carry:
\* none (read as ""), the provider's digest, and two corrupted digests.
SigChoices(b) ==
    IF b = 0 THEN {<<>>}
    ELSE LET d == hexdigest(ProviderKey, b)
         IN  {<<>>, d, FlipLast(d), WithNonAscii(d)}

---------------------------------------------------------------------------
(* The normalizers: product to months, period to months, amount to major   *)
(* units.  Text is a sequence of one-character strings; a number that may  *)
(* be a fraction is a record [num, den].                                   *)

\* Largest number of entries of settings.tribute_links explored.
MaxLinks == 2

upper(s) == [i \in DOMAIN s |-> UpperChar(s[i])]

\* str(n) for a natural number n
RECURSIVE str(_)
str(n) ==
    IF n < 10 THEN <<HexDigits[n + 1]>>
    ELSE str(n \div 10) \o <<HexDigits[(n % 10) + 1]>>

\* sub in s, for two str
Contains(sub, s) ==
    \E i \in 0..(Len(s) - Len(sub)) : SubSeq(s, i + 1, i + Len(sub)) = sub

\* f"p{product_id}" in link or f"p/{product_id}" in link
LinkMatches(link, product_id) ==
    \/ Contains(<<"p">> \o str(product_id), link)
    \/ Contains(<<"p", "/">> \o str(product_id), link)

\* Faulty variant: the last matching entry wins.
RECURSIVE ParseMonthsLastFrom(_, _, _)
ParseMonthsLastFrom(links, product_id, i) ==
    IF i < 1 THEN 1
    ELSE IF LinkMatches(links[i].link, product_id) THEN links[i].months
    ELSE ParseMonthsLastFrom(links, product_id, i - 1)

\* The loop of _parse_months_from_product from entry i on.
RECURSIVE ParseMonthsFrom(_, _, _)
ParseMonthsFrom(links, product_id, i) ==
    IF i > Len(links) THEN 1
    ELSE IF LinkMatches(links[i].link, product_id) THEN links[i].months
    ELSE ParseMonthsFrom(links, product_id, i + 1)

\* Faulty variant of _parse_months_from_product.
_parse_months_last_match(links, product_id) ==
    ParseMonthsLastFrom(links, product_id, Len(links))

\* TributeService._parse_months_from_product; links is
\* settings.tribute_links.items() in the order of the dict.
_parse_months_from_product(links, product_id) ==
    ParseMonthsFrom(links, product_id, 1)

Whole(n) == [num |-> n, den |-> 1]

\* period_to_months.get(period, 1), lines 314-321
period_to_months(period) ==
    CASE period = "monthly" -> Whole(1)
      [] period = "quarterly" -> Whole(3)
      [] period = "yearly" -> Whole(12)
      [] period = "half_yearly" -> Whole(6)
      [] period = "weekly" -> [num |-> 1, den |-> 4]
      [] OTHER -> Whole(1)

\* payload.get("period", "monthly")
PeriodOf(raw) == IF raw = "absent" THEN "monthly" ELSE raw

\* Faulty variant: the months of the table as they are.
months_unclamped(m) == m

\* months if months >= 1 else 1 (lines 357, 373, 411)
months_or_one(m) == IF m.num >= m.den THEN m ELSE Whole(1)

\* Faulty variant: the currency as the payload spells it.
currency_not_uppercased(raw, default) ==
    IF raw = Absent THEN default ELSE raw

\* payload.get("currency", default).upper(), lines 175 and 309
currency_upper(raw, default) ==
    upper(IF raw = Absent THEN default ELSE raw)

\* float(amount) / 100 if currency in ("USD", "EUR") else float(amount)
amount_float(amount, currency) ==
    IF currency \in {<<"U", "S", "D">>, <<"E", "U", "R">>}
    THEN [num |-> amount, den |-> 100]
    ELSE Whole(amount)

\* The default each handler gives payload.get("currency", ...).
DefaultCurrency(name) ==
    IF name = "new_digital_product" THEN usd ELSE rub

\* settings.tribute_links of the deployment the deliveries arrive at.
tribute_links ==
    << [months |-> 1, link |-> <<"=", "p", "1", "0">>],
       [months |-> 3, link |-> <<"=", "p", "3", "0">>] >>

---------------------------------------------------------------------------
VARIABLES
    TRIBUTE_ENABLED,    \* settings.TRIBUTE_ENABLED
    api_key,            \* self.api_key, "" when unset
    traffic_sale_mode,  \* settings.traffic_sale_mode
    users,              \* committed User rows
    payments,           \* committed PaymentRecords, payments[i] has db id i
    subscriptions,      \* db ids of the payments whose activation is committed
    bonuses,            \* db ids of the payments whose referral bonus is committed
    pc,                 \* where each delivery's task stands
    ev,                 \* the body of each delivery
    sig,                \* its trbt-signature header
    resp,               \* its HTTP response, status 0 until answered
    existing,           \* the result of its duplicate lookup
    pid,                \* the db id of the payment it inserted, 0 if none
    activation,         \* what activate_subscription returned to it
    referral_bonus,     \* what apply_referral_bonuses_for_payment returned
    pend,               \* writes in its session that are not committed
    lost,               \* writes of its session that were rolled back
    created_user,       \* whether it committed a new User row
    user_msg,           \* outcome of bot.send_message to the payer
    admin_msg,          \* outcome of notify_payment_received
    probe               \* one call of a pure function: arguments and result

config == <<TRIBUTE_ENABLED, api_key, traffic_sale_mode>>

db == <<users, payments, subscriptions, bonuses>>

task == <<pc, ev, sig, resp, existing, pid, activation, referral_bonus,
          pend, lost, created_user, user_msg, admin_msg>>

vars == <<config, db, task, probe>>

NoResponse == [status |-> 0, text |-> ""]

NoProbe == [fn |-> "none"]

\* The deliveries before any has arrived.
NoDeliveries ==
    /\ users = {}
    /\ payments = <<>>
    /\ subscriptions = {}
    /\ bonuses = {}
    /\ pc = [p \in Reqs |-> "idle"]
    /\ ev = [p \in Reqs |-> 0]
    /\ sig = [p \in Reqs |-> <<>>]
    /\ resp = [p \in Reqs |-> NoResponse]
    /\ existing = [p \in Reqs |-> "unset"]
    /\ pid = [p \in Reqs |-> 0]
    /\ activation = [p \in Reqs |-> "unset"]
    /\ referral_bonus = [p \in Reqs |-> "unset"]
    /\ pend = [p \in Reqs |-> {}]
    /\ lost = [p \in Reqs |-> {}]
    /\ created_user = [p \in Reqs |-> FALSE]
    /\ user_msg = [p \in Reqs |-> "unset"]
    /\ admin_msg = [p \in Reqs |-> "unset"]

Init ==
    /\ TRIBUTE_ENABLED \in BOOLEAN
    /\ api_key \in {"", ProviderKey}
    /\ traffic_sale_mode \in BOOLEAN
    /\ NoDeliveries
    /\ probe = NoProbe

Event(p) == EventList[ev[p]]

IsOneTime(p) == ev[p] \in Bodies /\ Event(p).name = "new_digital_product"

IsSubscription(p) == ev[p] \in Bodies /\ Event(p).name \in SubscriptionNames

Tuid(p) == IntOf(Event(p).telegram_user_id)

\* return web.Response(status=status, text=text): the task ends.
Respond(p, status, text) ==
    /\ resp' = [resp EXCEPT ![p] = [status |-> status, text |-> text]]
    /\ pc' = [pc EXCEPT ![p] = "done"]

\* Faulty variant: the session is left with its uncommitted writes.
RollbackKeepsWrites(p) == UNCHANGED <<pend, lost>>

\* session.rollback(), or the session closing as the "async with" block is
\* left: what the session wrote and did not commit is dropped.
Rollback(p) ==
    /\ pend' = [pend EXCEPT ![p] = {}]
    /\ lost' = [lost EXCEPT ![p] = lost[p] \cup pend[p]]

\* A return from inside the "async with" block.
Return(p, status, text) == Respond(p, status, text) /\ Rollback(p)

\* An exception nothing in the service catches: the session closes and
\* aiohttp answers 500.
Unhandled(p) == Return(p, 500, "unhandled")

Goto(p, label) == pc' = [pc EXCEPT ![p] = label]

\* Faulty variant: the identifier also counts the rows of the payments
\* table at the time it is derived.
provider_payment_id_counts_rows(b) ==
    LET e == EventList[b]
    IN  IF e.name = "new_digital_product"
        THEN <<"tribute", e.product_id, e.user_id, e.created_at,
               Len(payments)>>
        ELSE <<"tribute_sub", e.subscription_id, e.period_id, e.user_id,
               Len(payments)>>

\* f"tribute:{product_id}:{tribute_user_id}:{created_at}" and
\* f"tribute_sub:{subscription_id}:{period_id}:{tribute_user_id}"
provider_payment_id(b) ==
    LET e == EventList[b]
    IN  IF e.name = "new_digital_product"
        THEN <<"tribute", e.product_id, e.user_id, e.created_at>>
        ELSE <<"tribute_sub", e.subscription_id, e.period_id, e.user_id>>

---------------------------------------------------------------------------
(* webhook_route up to the first access to the persistence layer.          *)

\* Faulty variant: calls _verify_signature whether or not a key is set.
SignatureGateAlwaysVerifies(b, s) ==
    LET v == _verify_signature(api_key, b, s)
    IN  IF v = "TypeError" THEN "raise"
        ELSE IF v = "False" THEN "reject" ELSE "pass"

\* if self.api_key and not self._verify_signature(body, signature)
SignatureGate(b, s) ==
    IF api_key = "" THEN "pass"
    ELSE LET v == _verify_signature(api_key, b, s)
         IN  IF v = "TypeError" THEN "raise"
             ELSE IF v = "False" THEN "reject" ELSE "pass"

\* An exception that leaves webhook_route: aiohttp answers 500.
Raised == [status |-> 500, text |-> "unhandled", next |-> "done"]

\* Both handlers up to "async with self.async_session_factory()": lines
\* 172-192 and 294-324.  payload.get raises on a payload that is no object;
\* the one-time handler calls currency.upper() before it looks at
\* telegram_user_id (line 175), the subscription handler after (line 309);
\* int() is guarded against TypeError and ValueError only.
ValidateUser(e) ==
    IF e.payload # "object" THEN Raised
    ELSE IF e.name = "new_digital_product" /\ e.currency = JsonNull
    THEN Raised
    ELSE IF e.telegram_user_id = ""
    THEN [status |-> 400, text |-> "missing_telegram_user_id", next |-> "done"]
    ELSE IF IntRaises(e.telegram_user_id) = "ValueError"
    THEN [status |-> 400, text |-> "invalid_telegram_user_id", next |-> "done"]
    ELSE IF IntRaises(e.telegram_user_id) = "OverflowError" THEN Raised
    ELSE IF e.currency = JsonNull THEN Raised
    ELSE [status |-> 0, text |-> "", next |-> "get_user"]

\* The event dispatch of webhook_route, lines 151-164.  The refund and the
\* cancellation branch log payload.get(...), which raises on a payload that
\* is no object.
Dispatch(e) ==
    IF e.name = "new_digital_product" THEN ValidateUser(e)
    ELSE IF e.name = "digitalProductRefund"
    THEN IF e.payload # "object" THEN Raised
         ELSE [status |-> 200, text |-> "OK", next |-> "done"]
    ELSE IF e.name \in SubscriptionNames THEN ValidateUser(e)
    ELSE IF e.name \in CancelledNames
    THEN IF e.payload # "object" THEN Raised
         ELSE [status |-> 200, text |-> "OK", next |-> "done"]
    ELSE [status |-> 200, text |-> "OK", next |-> "done"]

\* json.loads(body) and what follows, lines 140-164.  Only JSONDecodeError
\* is caught: bytes that are not UTF-8 raise UnicodeDecodeError.
JsonOutcome(b) ==
    IF EventList[b].doc = "malformed"
    THEN [status |-> 400, text |-> "invalid_json", next |-> "done"]
    ELSE IF EventList[b].doc = "not_utf8" THEN Raised
    ELSE Dispatch(EventList[b])

\* Faulty variant: reads the body before it looks at TRIBUTE_ENABLED.
RouteOutcomeReadsFirst(b, s) ==
    IF b = 0
    THEN [status |-> 400, text |-> "bad_request", next |-> "done"]
    ELSE IF ~TRIBUTE_ENABLED
    THEN [status |-> 503, text |-> "tribute_disabled", next |-> "done"]
    ELSE IF SignatureGate(b, s) = "raise" THEN Raised
    ELSE IF SignatureGate(b, s) = "reject"
    THEN [status |-> 403, text |-> "invalid_signature", next |-> "done"]
    ELSE JsonOutcome(b)

\* What webhook_route does with body b and signature header s before any
\* handler touches the database: a response, or the handler's first step.
RouteOutcome(b, s) ==
    IF ~TRIBUTE_ENABLED
    THEN [status |-> 503, text |-> "tribute_disabled", next |-> "done"]
    ELSE IF b = 0
    THEN [status |-> 400, text |-> "bad_request", next |-> "done"]
    ELSE IF SignatureGate(b, s) = "raise" THEN Raised
    ELSE IF SignatureGate(b, s) = "reject"
    THEN [status |-> 403, text |-> "invalid_signature", next |-> "done"]
    ELSE JsonOutcome(b)

\* A delivery arrives.  Deliveries are numbered in the order they arrive.
webhook_route(p) ==
    /\ pc[p] = "idle"
    /\ \A q \in Reqs : q < p => pc[q] # "idle"
    /\ \E b \in {0} \cup Bodies :
         \E s \in SigChoices(b) :
            LET o == RouteOutcome(b, s)
            IN  /\ ev' = [ev EXCEPT ![p] = b]
                /\ sig' = [sig EXCEPT ![p] = s]
                /\ pc' = [pc EXCEPT ![p] = o.next]
                /\ resp' = [resp EXCEPT ![p] =
                               [status |-> o.status, text |-> o.text]]
    /\ UNCHANGED <<config, probe, db, existing, pid, activation, referral_bonus,
                   pend, lost, created_user, user_msg, admin_msg>>

---------------------------------------------------------------------------
(* The two handlers, one action per awaited call.                          *)

\* The user_id of every committed User row.
UserIds == {u.user_id : u \in users}

\* The row both handlers create for an unknown payer (lines 201-205 and
\* 332-336).
NewUser(p) ==
    [user_id |-> Tuid(p), first_name |-> "Tribute User",
     language_code |-> "DEFAULT_LANGUAGE"]

\* db_user = await user_dal.get_user_by_id(session, telegram_user_id)
get_user_by_id(p) ==
    /\ pc[p] = "get_user"
    /\ Goto(p, IF Tuid(p) \in UserIds THEN "check_dup" ELSE "create_user")
    /\ UNCHANGED <<config, probe, db, ev, sig, resp, existing, pid, activation,
                   referral_bonus, pend, lost, created_user, user_msg,
                   admin_msg>>

\* Faulty variant: goes on to the lookup without a committed User row.
create_user_uncommitted(p) ==
    /\ pc[p] = "create_user"
    /\ created_user' = [created_user EXCEPT ![p] = TRUE]
    /\ Goto(p, "check_dup")
    /\ UNCHANGED <<config, probe, db, ev, sig, resp, existing, pid, activation,
                   referral_bonus, pend, lost, user_msg, admin_msg>>

\* user_dal.create_user and session.commit in one try block; user_id is
\* the primary key of User.
create_user(p) ==
    /\ pc[p] = "create_user"
    /\ \/ /\ Tuid(p) \notin UserIds
          /\ users' = users \cup {NewUser(p)}
          /\ created_user' = [created_user EXCEPT ![p] = TRUE]
          /\ Goto(p, "check_dup")
          /\ UNCHANGED <<resp, pend, lost>>
       \/ /\ Return(p, 500, "user_creation_failed")
          /\ UNCHANGED <<users, created_user>>
    /\ UNCHANGED <<config, probe, payments, subscriptions, bonuses, ev, sig,
                   existing, pid, activation, referral_bonus, user_msg,
                   admin_msg>>

HasPayment(ppid) ==
    \E i \in DOMAIN payments : payments[i].provider_payment_id = ppid

\* Faulty variant: inserts without looking for an existing record.
get_payment_lookup_skipped(p) ==
    /\ pc[p] = "check_dup"
    /\ existing' = [existing EXCEPT ![p] = "absent"]
    /\ Goto(p, "insert")
    /\ UNCHANGED <<config, probe, db, ev, sig, resp, pid, activation,
                   referral_bonus, pend, lost, created_user, user_msg,
                   admin_msg>>

\* Faulty variant: a duplicate is confirmed to the payer again.
get_payment_duplicate_renotifies(p) ==
    /\ pc[p] = "check_dup"
    /\ IF HasPayment(provider_payment_id(ev[p]))
       THEN /\ existing' = [existing EXCEPT ![p] = "found"]
            /\ Goto(p, "notify")
       ELSE /\ existing' = [existing EXCEPT ![p] = "absent"]
            /\ Goto(p, "insert")
    /\ UNCHANGED <<config, probe, db, ev, sig, resp, pid, activation,
                   referral_bonus, pend, lost, created_user, user_msg,
                   admin_msg>>

\* Faulty variant: a duplicate is answered as a conflict.
get_payment_duplicate_conflict(p) ==
    /\ pc[p] = "check_dup"
    /\ IF HasPayment(provider_payment_id(ev[p]))
       THEN /\ existing' = [existing EXCEPT ![p] = "found"]
            /\ Return(p, 409, "duplicate")
       ELSE /\ existing' = [existing EXCEPT ![p] = "absent"]
            /\ Goto(p, "insert")
            /\ UNCHANGED <<resp, pend, lost>>
    /\ UNCHANGED <<config, probe, db, ev, sig, pid, activation, referral_bonus,
                   created_user, user_msg, admin_msg>>

\* existing = await payment_dal.get_payment_by_provider_payment_id(...)
get_payment_by_provider_payment_id(p) ==
    /\ pc[p] = "check_dup"
    /\ IF HasPayment(provider_payment_id(ev[p]))
       THEN /\ existing' = [existing EXCEPT ![p] = "found"]
            /\ Return(p, 200, "OK")
       ELSE /\ existing' = [existing EXCEPT ![p] = "absent"]
            /\ Goto(p, "insert")
            /\ UNCHANGED <<resp, pend, lost>>
    /\ UNCHANGED <<config, probe, db, ev, sig, pid, activation, referral_bonus,
                   created_user, user_msg, admin_msg>>

\* Faulty variant: a persistence layer without the uniqueness constraint.
NoUniqueProviderPaymentId == FALSE

\* Payment.provider_payment_id carries a uniqueness constraint.
UniqueProviderPaymentId == TRUE

\* The row the handler inserts: "succeeded" on the one-time path (line 225),
\* "pending" on the subscription path (line 358).
NewPayment(p) ==
    [provider_payment_id |-> provider_payment_id(ev[p]),
     status |-> IF IsOneTime(p) THEN "succeeded" ELSE "pending",
     user_id |-> Tuid(p),
     amount |-> amount_float(Event(p).amount,
                    currency_upper(Event(p).currency,
                                   DefaultCurrency(Event(p).name))),
     currency |-> currency_upper(Event(p).currency,
                                 DefaultCurrency(Event(p).name)),
     months |-> IF IsOneTime(p)
                THEN Whole(_parse_months_from_product(
                               tribute_links, Event(p).product_id))
                ELSE months_or_one(
                         period_to_months(PeriodOf(Event(p).period)))]

\* Faulty variant: a failed insert is acknowledged.
create_payment_record_failure_acknowledged(p) ==
    /\ pc[p] = "insert"
    /\ \/ /\ ~(UniqueProviderPaymentId
               /\ HasPayment(provider_payment_id(ev[p])))
          /\ payments' = Append(payments, NewPayment(p))
          /\ pid' = [pid EXCEPT ![p] = Len(payments) + 1]
          /\ Goto(p, "activate")
          /\ UNCHANGED <<resp, pend, lost>>
       \/ /\ Return(p, 200, "OK")
          /\ UNCHANGED <<payments, pid>>
    /\ UNCHANGED <<config, probe, users, subscriptions, bonuses, ev, sig, existing,
                   activation, referral_bonus, created_user, user_msg,
                   admin_msg>>

\* payment_dal.create_payment_record (one-time) or payment_dal.create_payment
\* (subscription), and session.commit.  The one-time path catches a failure,
\* rolls back and answers db_error; the subscription path catches nothing.
create_payment_record(p) ==
    /\ pc[p] = "insert"
    /\ \/ /\ ~(UniqueProviderPaymentId
               /\ HasPayment(provider_payment_id(ev[p])))
          /\ payments' = Append(payments, NewPayment(p))
          /\ pid' = [pid EXCEPT ![p] = Len(payments) + 1]
          /\ Goto(p, "activate")
          /\ UNCHANGED <<resp, pend, lost>>
       \/ /\ IF IsOneTime(p) THEN Return(p, 500, "db_error")
                             ELSE Unhandled(p)
          /\ UNCHANGED <<payments, pid>>
    /\ UNCHANGED <<config, probe, users, subscriptions, bonuses, ev, sig, existing,
                   activation, referral_bonus, created_user, user_msg,
                   admin_msg>>

\* What activate_subscription may give back: a result with activated = true,
\* a result with activated = false, None, or an exception.
ActivationResults == {"activated", "not_activated", "none", "raised"}

\* bool(activation) in Python: a dict with entries is true whatever its
\* "activated" entry says; None is false.  A caught exception leaves None.
Truthy(a) == a \in {"activated", "not_activated"}

\* activation = await self.subscription_service.activate_subscription(...)
\* One-time path: an exception goes to the except of lines 268-271.
\* Subscription path: the exception is logged and activation stays None.
activate_subscription(p) ==
    /\ pc[p] = "activate"
    /\ \E r \in ActivationResults :
         /\ activation' = [activation EXCEPT ![p] = r]
         /\ IF r = "raised" /\ IsOneTime(p)
            THEN Return(p, 500, "activation_error")
            ELSE /\ pend' = [pend EXCEPT ![p] =
                       IF r = "activated" THEN pend[p] \cup {"activation"}
                                          ELSE pend[p]]
                 /\ Goto(p, IF IsSubscription(p) THEN "update_status"
                            ELSE IF traffic_sale_mode THEN "commit"
                            ELSE "bonus")
                 /\ UNCHANGED <<resp, lost>>
    /\ UNCHANGED <<config, probe, db, ev, sig, existing, pid, referral_bonus,
                   created_user, user_msg, admin_msg>>

\* Subscription path, lines 383-388: the status write joins the session;
\* an exception from it is caught nowhere.
update_payment_status_by_db_id(p) ==
    /\ pc[p] = "update_status"
    /\ \/ /\ pend' = [pend EXCEPT ![p] = pend[p] \cup
                 {IF Truthy(activation[p]) THEN "status_succeeded"
                                           ELSE "status_failed"}]
          /\ Goto(p, IF Truthy(activation[p]) THEN "bonus" ELSE "commit")
          /\ UNCHANGED <<resp, lost>>
       \/ Unhandled(p)
    /\ UNCHANGED <<config, probe, db, ev, sig, existing, pid, activation,
                   referral_bonus, created_user, user_msg, admin_msg>>

\* What apply_referral_bonuses_for_payment may give back.
BonusResults == {"applied", "none", "raised"}

\* Faulty variant: the subscription path, like the one-time path, rolls
\* back and answers activation_error when the bonus call raises.
apply_referral_bonuses_rolls_back(p) ==
    /\ pc[p] = "bonus"
    /\ \E r \in BonusResults :
         /\ referral_bonus' = [referral_bonus EXCEPT ![p] = r]
         /\ IF r = "raised"
            THEN Return(p, 500, "activation_error")
            ELSE /\ pend' = [pend EXCEPT ![p] =
                       IF r = "applied" THEN pend[p] \cup {"bonus"}
                                        ELSE pend[p]]
                 /\ Goto(p, "commit")
                 /\ UNCHANGED <<resp, lost>>
    /\ UNCHANGED <<config, probe, db, ev, sig, existing, pid, activation,
                   created_user, user_msg, admin_msg>>

\* referral_bonus = await self.referral_service
\*     .apply_referral_bonuses_for_payment(...)
\* One-time path (line 258: only when the sale mode is not traffic): an
\* exception goes to the except of lines 268-271.  Subscription path
\* (line 392: only when activation is true): the exception is logged.
apply_referral_bonuses_for_payment(p) ==
    /\ pc[p] = "bonus"
    /\ \E r \in BonusResults :
         /\ referral_bonus' = [referral_bonus EXCEPT ![p] = r]
         /\ IF r = "raised" /\ IsOneTime(p)
            THEN Return(p, 500, "activation_error")
            ELSE /\ pend' = [pend EXCEPT ![p] =
                       IF r = "applied" THEN pend[p] \cup {"bonus"}
                                        ELSE pend[p]]
                 /\ Goto(p, "commit")
                 /\ UNCHANGED <<resp, lost>>
    /\ UNCHANGED <<config, probe, db, ev, sig, existing, pid, activation,
                   created_user, user_msg, admin_msg>>

\* Faulty variant: a commit without a status write marks the payment failed.
StatusAfterResets(i, writes) ==
    IF "status_succeeded" \in writes THEN "succeeded" ELSE "failed"

\* The status a committed status write leaves on payment i.
StatusAfter(i, writes) ==
    IF "status_succeeded" \in writes THEN "succeeded"
    ELSE IF "status_failed" \in writes THEN "failed"
    ELSE payments[i].status

\* Faulty variant: the handler notifies before it commits.
session_commit_deferred(p) ==
    /\ pc[p] = "commit"
    /\ IF IsOneTime(p) \/ Truthy(activation[p])
       THEN Goto(p, "notify") /\ UNCHANGED <<resp, pend, lost>>
       ELSE Return(p, 200, "OK")
    /\ UNCHANGED <<config, probe, db, ev, sig, existing, pid, activation,
                   referral_bonus, created_user, user_msg, admin_msg>>

\* await session.commit() of line 267 (one-time, inside the try) and of
\* line 403 (subscription, outside any try).  After it the one-time path
\* always notifies; the subscription path notifies when activation is true.
session_commit(p) ==
    /\ pc[p] = "commit"
    /\ \/ /\ payments' = [payments EXCEPT ![pid[p]].status =
                              StatusAfter(pid[p], pend[p])]
          /\ subscriptions' = IF "activation" \in pend[p]
                              THEN subscriptions \cup {pid[p]}
                              ELSE subscriptions
          /\ bonuses' = IF "bonus" \in pend[p] THEN bonuses \cup {pid[p]}
                        ELSE bonuses
          /\ pend' = [pend EXCEPT ![p] = {}]
          /\ IF IsOneTime(p) \/ Truthy(activation[p])
             THEN Goto(p, "notify") /\ UNCHANGED resp
             ELSE Respond(p, 200, "OK")
          /\ UNCHANGED lost
       \/ /\ IF IsOneTime(p) THEN Return(p, 500, "activation_error")
                             ELSE Unhandled(p)
          /\ UNCHANGED <<payments, subscriptions, bonuses>>
    /\ UNCHANGED <<config, probe, users, ev, sig, existing, pid, activation,
                   referral_bonus, created_user, user_msg, admin_msg>>

\* _send_success_notification up to bot.send_message (lines 437-507).
\* Composing the text (prepare_config_links, i18n, the inviter lookup) is
\* outside the try blocks: if it raises, the one-time path has nothing to
\* catch it, the subscription path logs it (lines 419-420).  A failed
\* send_message is logged.
_send_success_notification(p) ==
    /\ pc[p] = "notify"
    /\ \E o \in {"sent", "failed", "compose_raised"} :
         /\ user_msg' = [user_msg EXCEPT ![p] = o]
         /\ IF o = "compose_raised"
            THEN IF IsOneTime(p) THEN Unhandled(p) ELSE Return(p, 200, "OK")
            ELSE Goto(p, "notify_admin") /\ UNCHANGED <<resp, pend, lost>>
    /\ UNCHANGED <<config, probe, db, ev, sig, existing, pid, activation,
                   referral_bonus, created_user, admin_msg>>

\* Faulty variant: a failed admin notification takes the activation back.
notify_payment_received_reverts(p) ==
    /\ pc[p] = "notify_admin"
    /\ \E o \in {"sent", "failed"} :
         /\ admin_msg' = [admin_msg EXCEPT ![p] = o]
         /\ subscriptions' = IF o = "failed" THEN subscriptions \ {pid[p]}
                              ELSE subscriptions
    /\ Return(p, 200, "OK")
    /\ UNCHANGED <<config, probe, users, payments, bonuses, ev, sig, existing,
                   pid, activation, referral_bonus, created_user, user_msg>>

\* notification_service.notify_payment_received (lines 510-522), then the
\* handler returns OK.
notify_payment_received(p) ==
    /\ pc[p] = "notify_admin"
    /\ \E o \in {"sent", "failed"} :
         admin_msg' = [admin_msg EXCEPT ![p] = o]
    /\ Return(p, 200, "OK")
    /\ UNCHANGED <<config, probe, db, ev, sig, existing, pid, activation,
                   referral_bonus, created_user, user_msg>>

---------------------------------------------------------------------------
Step(p) ==
    \/ webhook_route(p)
    \/ get_user_by_id(p)
    \/ create_user(p)
    \/ get_payment_by_provider_payment_id(p)
    \/ create_payment_record(p)
    \/ activate_subscription(p)
    \/ update_payment_status_by_db_id(p)
    \/ apply_referral_bonuses_for_payment(p)
    \/ session_commit(p)
    \/ _send_success_notification(p)
    \/ notify_payment_received(p)

\* Deliveries handled concurrently: the tasks interleave at their awaits.
Next == \E p \in Reqs : Step(p)

Spec == Init /\ [][Next]_vars

\* Deliveries handled one after the other: a delivery arrives when every
\* earlier one has been answered.
SeqNext ==
    \E p \in Reqs :
        /\ \A q \in Reqs : q # p => pc[q] \in {"idle", "done"}
        /\ Step(p)

SeqSpec == Init /\ [][SeqNext]_vars

---------------------------------------------------------------------------
(* _verify_signature on its own: every key, body and header value.         *)

\* All strings over S of length 0..n
RECURSIVE StringsUpTo(_, _)
StringsUpTo(S, n) ==
    IF n = 0 THEN {<<>>}
    ELSE LET shorter == StringsUpTo(S, n - 1)
         IN  shorter \cup
             {Append(t, c) : t \in {u \in shorter : Len(u) = n - 1}, c \in S}

VerifyInit ==
    /\ TRIBUTE_ENABLED = TRUE
    /\ api_key = ProviderKey
    /\ traffic_sale_mode = FALSE
    /\ NoDeliveries
    /\ probe \in [fn : {"_verify_signature"}, key : Keys, body : Bodies,
                  signature : StringsUpTo(Alphabet, DigestLen),
                  result : {"unset"}]

\* result = self._verify_signature(body, signature)
VerifyCall ==
    /\ probe.fn = "_verify_signature"
    /\ probe.result = "unset"
    /\ probe' = [probe EXCEPT !.result =
                    _verify_signature(probe.key, probe.body, probe.signature)]
    /\ UNCHANGED <<config, db, task>>

VerifySpec == VerifyInit /\ [][VerifyCall]_vars

---------------------------------------------------------------------------
(* The normalizers on their own: every link configuration and product,     *)
(* every period, every amount and currency.                                *)

LinkTexts ==
    { <<"=", "p", "1", "0">>, <<"p", "/", "1", "0">>, <<"=", "p", "1">>,
      <<"p", "/", "2">>, <<"x">> }

MonthChoices == {1, 3, 6, 12}

\* settings.tribute_links: a dict from months to link, in insertion order.
LinkConfigs ==
    { c \in UNION { [1..n -> [months : MonthChoices, link : LinkTexts]] :
                       n \in 0..MaxLinks } :
        \A i, j \in DOMAIN c : c[i].months = c[j].months => i = j }

ProductIds == {1, 2, 10}

\* payload["period"]: the five periods of the table, one that is not in
\* it, null, and no such key.
Periods ==
    {"monthly", "quarterly", "half_yearly", "yearly", "weekly", "daily",
     "null", "absent"}

Amounts == {0, 1, 99, 500}

Currencies ==
    { usd, <<"U", "S", "D">>, <<"U", "s", "d">>, <<"e", "u", "r">>,
      <<"E", "U", "R">>, rub, <<"R", "U", "B">>, <<"u", "s">> }

NormalizeInit ==
    /\ TRIBUTE_ENABLED = TRUE
    /\ api_key = ProviderKey
    /\ traffic_sale_mode = FALSE
    /\ NoDeliveries
    /\ \/ probe \in [fn : {"_parse_months_from_product"},
                      links : LinkConfigs, product_id : ProductIds,
                      called : {FALSE}, result : {0}]
       \/ probe \in [fn : {"period_to_months"}, period : Periods,
                      called : {FALSE}, months : {Whole(0)},
                      written : {Whole(0)}, activated : {Whole(0)}]
       \/ probe \in [fn : {"amount_float"},
                      name : {"new_digital_product", "newSubscription"},
                      amount : Amounts, currency : Currencies \cup {Absent},
                      called : {FALSE}, result : {Whole(0)}]

\* months = self._parse_months_from_product(product_id, amount)
ParseMonthsCall ==
    /\ probe.fn = "_parse_months_from_product"
    /\ ~probe.called
    /\ probe' = [probe EXCEPT !.called = TRUE,
                    !.result = _parse_months_from_product(probe.links,
                                                          probe.product_id)]
    /\ UNCHANGED <<config, db, task>>

\* Lines 307-321 with the months written at line 357 and passed at line 373.
PeriodToMonthsCall ==
    /\ probe.fn = "period_to_months"
    /\ ~probe.called
    /\ LET months == period_to_months(PeriodOf(probe.period))
       IN  probe' = [probe EXCEPT !.called = TRUE,
                        !.months = months,
                        !.written = months_or_one(months),
                        !.activated = months_or_one(months)]
    /\ UNCHANGED <<config, db, task>>

\* Lines 174-192 and 308-324: currency, then amount_float.
AmountFloatCall ==
    /\ probe.fn = "amount_float"
    /\ ~probe.called
    /\ probe' = [probe EXCEPT !.called = TRUE,
                    !.result = amount_float(probe.amount,
                                   currency_upper(probe.currency,
                                       DefaultCurrency(probe.name)))]
    /\ UNCHANGED <<config, db, task>>

NormalizeNext == ParseMonthsCall \/ PeriodToMonthsCall \/ AmountFloatCall

NormalizeSpec == NormalizeInit /\ [][NormalizeNext]_vars

---------------------------------------------------------------------------
(* The derivation of provider_payment_id on its own: the same body derived *)
(* again and again while rows are committed to the payments table.         *)

\* Largest number of derivations of one body explored.
MaxAttempts == 2
\* Largest number of rows committed in between.
MaxRows == 2

\* The bodies that reach one of the two handlers' derivations.
HandledBodies ==
    {b \in Bodies : /\ EventList[b].doc = "object"
                    /\ \/ EventList[b].name = "new_digital_product"
                       \/ EventList[b].name \in SubscriptionNames}

DeriveInit ==
    /\ TRIBUTE_ENABLED = TRUE
    /\ api_key = ProviderKey
    /\ traffic_sale_mode = FALSE
    /\ NoDeliveries
    /\ probe \in [fn : {"provider_payment_id"}, body : HandledBodies,
                  attempts : {<<>>}]

\* provider_payment_id = f"tribute:..." (line 213) or f"tribute_sub:..."
\* (line 344) in one more delivery of the body.
DeriveCall ==
    /\ probe.fn = "provider_payment_id"
    /\ Len(probe.attempts) < MaxAttempts
    /\ probe' = [probe EXCEPT !.attempts =
                    Append(@, provider_payment_id(probe.body))]
    /\ UNCHANGED <<config, db, task>>

\* Some delivery commits a payment row in between.
RowCommitted ==
    /\ probe.fn = "provider_payment_id"
    /\ Len(payments) < MaxRows
    /\ \E b \in {1, 2} :
         payments' = Append(payments,
                        [provider_payment_id |-> provider_payment_id(b),
                         status |-> "succeeded"])
    /\ UNCHANGED <<config, users, subscriptions, bonuses, task, probe>>

DeriveNext == DeriveCall \/ RowCommitted

DeriveSpec == DeriveInit /\ [][DeriveNext]_vars

---------------------------------------------------------------------------
(* The trial not-connected reminder (bot/handlers/user/trial_handler.py,   *)
(* schedule_not_connected_reminder), a task its creator never awaits.      *)

\* random.randint(300, 600), three of its values
Delays == {300, 450, 600}

\* What panel_service.get_user_devices may give back: None, an empty or a
\* non-empty list, and a dict that is empty, or whose "devices" is an empty
\* list, a non-empty list, or no list at all.
DeviceResponses ==
    {"None", "empty_list", "list", "empty_dict", "dict_empty_list",
     "dict_list", "dict_no_list"}

\* has_devices of lines 49-53
has_devices(r) == r \in {"list", "dict_list"}

ReminderInit ==
    /\ TRIBUTE_ENABLED = TRUE
    /\ api_key = ProviderKey
    /\ traffic_sale_mode = FALSE
    /\ NoDeliveries
    /\ probe \in [fn : {"schedule_not_connected_reminder"},
                  connect_button_url : BOOLEAN,
                  at : {"sleep"}, delay_seconds : {0},
                  devices_response : {"unset"},
                  reminders : {0}, failure : {"none"},
                  logged : {FALSE}, escaped : {"none"}]

\* The task is cancelled at an await: CancelledError is no Exception, the
\* except clause of line 85 lets it through and the task ends cancelled.
ReminderCancelled ==
    probe' = [probe EXCEPT !.at = "done", !.escaped = "CancelledError"]

\* except Exception as e: logging.error(...) (lines 85-86)
ReminderCaught(what) ==
    probe' = [probe EXCEPT !.at = "done", !.failure = what, !.logged = TRUE]

\* await asyncio.sleep(delay_seconds) (lines 42-44)
ReminderSleep ==
    /\ probe.fn = "schedule_not_connected_reminder"
    /\ probe.at = "sleep"
    /\ \/ \E d \in Delays :
            probe' = [probe EXCEPT !.at = "lookup", !.delay_seconds = d]
       \/ ReminderCancelled
    /\ UNCHANGED <<config, db, task>>

\* devices_response = await panel_service.get_user_devices(...) and the
\* test of has_devices (lines 47-57)
ReminderLookup ==
    /\ probe.fn = "schedule_not_connected_reminder"
    /\ probe.at = "lookup"
    /\ \/ \E r \in DeviceResponses :
            probe' = [probe EXCEPT !.devices_response = r,
                         !.at = IF has_devices(r) THEN "done" ELSE "send"]
       \/ ReminderCaught("lookup")
       \/ ReminderCancelled
    /\ UNCHANGED <<config, db, task>>

\* Faulty variant: bot.send_message outside the try block.
ReminderSendUnguarded ==
    /\ probe.fn = "schedule_not_connected_reminder"
    /\ probe.at = "send"
    /\ \/ probe' = [probe EXCEPT !.at = "done", !.reminders = @ + 1]
       \/ ReminderCaught("compose")
       \/ probe' = [probe EXCEPT !.at = "done", !.failure = "send",
                        !.escaped = "Exception"]
       \/ ReminderCancelled
    /\ UNCHANGED <<config, db, task>>

\* The text and keyboard, then await bot.send_message(...) (lines 60-83)
ReminderSend ==
    /\ probe.fn = "schedule_not_connected_reminder"
    /\ probe.at = "send"
    /\ \/ probe' = [probe EXCEPT !.at = "done", !.reminders = @ + 1]
       \/ ReminderCaught("compose")
       \/ ReminderCaught("send")
       \/ ReminderCancelled
    /\ UNCHANGED <<config, db, task>>

ReminderNext == ReminderSleep \/ ReminderLookup \/ ReminderSend

ReminderSpec == ReminderInit /\ [][ReminderNext]_vars

---------------------------------------------------------------------------
(* Vocabulary of the properties.                                           *)

Started(p) == pc[p] # "idle"

Done(p) == pc[p] = "done"

\* The delivery passed the gates of webhook_route and entered a handler.
Dispatched(p) == Started(p) /\ RouteOutcome(ev[p], sig[p]).next = "get_user"

PaymentsOf(ppid) ==
    {i \in DOMAIN payments : payments[i].provider_payment_id = ppid}

ActivationCalled(p) == activation[p] # "unset"

BonusCalled(p) == referral_bonus[p] # "unset"

\* Deliveries p and q carry the same body, q after p, and both were answered.
Redelivered(p, q) ==
    /\ p < q
    /\ ev[p] = ev[q]
    /\ Dispatched(p) /\ Dispatched(q)
    /\ Done(p) /\ Done(q)

\* The committed effects of the delivery that inserted payment i.
Landed(i) ==
    (IF i \in subscriptions THEN {"activation"} ELSE {})
    \cup (IF i \in bonuses THEN {"bonus"} ELSE {})
    \cup (IF payments[i].status \in {"succeeded", "failed"}
          THEN {"status"} ELSE {})

\* sale_mode as each handler passes it on: line 244, and "subscription"
\* on the subscription path (line 377).
sale_mode(p) ==
    IF IsOneTime(p) /\ traffic_sale_mode THEN "traffic" ELSE "subscription"

---------------------------------------------------------------------------
C3_AllOrNothing ==
    \A p \in Reqs :
        (Done(p) /\ pid[p] # 0) => (Landed(pid[p]) = {} \/ lost[p] = {})

(* C4 as stated.  After a delivery answered 200 that called activation:    *)
(* the committed status is succeeded when activation returned an activated *)
(* result, and failed when it returned a result that is not activated      *)
(* (None, or activated = false).                                           *)
C4_StatusFollowsActivation ==
    \A p \in Reqs :
        (Done(p) /\ resp[p].status = 200 /\ pid[p] # 0) =>
            /\ activation[p] = "activated"
                  => payments[pid[p]].status = "succeeded"
            /\ activation[p] \in {"not_activated", "none"}
                  => payments[pid[p]].status = "failed"

(* C5 as stated.  The referral-bonus collaborator is called in a delivery  *)
(* only if activation returned an activated result in that delivery and    *)
(* the sale mode is not traffic.                                           *)
C5_BonusOnlyAfterActivation ==
    \A p \in Reqs :
        BonusCalled(p) =>
            activation[p] = "activated" /\ sale_mode(p) # "traffic"

(* C6 as stated.  If activate_subscription raised in a delivery, the       *)
(* delivery is answered 5xx and nothing it wrote after the insert is       *)
(* committed.                                                              *)
C6_ActivationExceptionRollsBack ==
    \A p \in Reqs :
        (Done(p) /\ activation[p] = "raised") =>
            /\ resp[p].status >= 500
            /\ payments[pid[p]].status = NewPayment(p).status
            /\ pid[p] \notin subscriptions

SameUpToCase(s, d) ==
    /\ Len(s) = Len(d)
    /\ \A i \in DOMAIN d : s[i] = d[i] \/ s[i] = UpperChar(d[i])

(* C8 as stated.  Under VerifySpec, with a secret configured:              *)
(* _verify_signature(body, sig) is true when sig is the hex digest of the  *)
(* body in any letter case, and false for every other sig.                 *)
C8_VerifySignature ==
    (probe.fn = "_verify_signature" /\ probe.result # "unset"
                                    /\ probe.key # "") =>
        LET d == hexdigest(probe.key, probe.body)
        IN  /\ SameUpToCase(probe.signature, d) => probe.result = "True"
            /\ ~SameUpToCase(probe.signature, d) => probe.result = "False"

\* The delivery changed nothing and called no collaborator.
NoEffects(p) ==
    /\ ~created_user[p]
    /\ pid[p] = 0
    /\ ~ActivationCalled(p)
    /\ ~BonusCalled(p)
    /\ user_msg[p] = "unset"
    /\ admin_msg[p] = "unset"

(* C9 as stated.  With the feature enabled and a secret configured, every  *)
(* delivery whose signature header is absent, empty or not the digest of   *)
(* its body is answered 403 and has no effect, whatever its body.          *)
C9_BadSignatureRejected ==
    \A p \in Reqs :
        (Started(p) /\ TRIBUTE_ENABLED /\ api_key # "" /\ ev[p] # 0
            /\ ~SameUpToCase(sig[p], hexdigest(api_key, ev[p]))) =>
            /\ Done(p)
            /\ resp[p].status = 403
            /\ NoEffects(p)

\* The outcome of webhook_route when the signature gate is left out.
UngatedOutcome(b) == JsonOutcome(b)

\* The task went into one of the two handlers.
EnteredHandler(p) ==
    \/ pc[p] \notin {"idle", "done"}
    \/ existing[p] # "unset"
    \/ resp[p].text = "user_creation_failed"

(* C10.  With the feature enabled and no secret configured, no delivery is *)
(* answered 403, and every delivery whose body was read is processed as    *)
(* its body alone decides, whatever its signature header: answered by the  *)
(* JSON check or the dispatch, or handed to its handler.                   *)
C10_NoSecretNoRejection ==
    \A p \in Reqs :
        (Started(p) /\ TRIBUTE_ENABLED /\ api_key = "") =>
            /\ resp[p].status # 403
            /\ ev[p] # 0 =>
                  LET o == UngatedOutcome(ev[p])
                  IN  IF o.next = "done"
                      THEN /\ Done(p)
                           /\ resp[p] = [status |-> o.status, text |-> o.text]
                      ELSE EnteredHandler(p)

\* With no secret, a delivery without a signature and one with a wrong
\* signature were both processed to the end.
C10_Witness ==
    /\ TRIBUTE_ENABLED /\ api_key = ""
    /\ \E p, q \in Reqs :
         /\ sig[p] = <<>>
         /\ sig[q] = FlipLast(hexdigest(ProviderKey, ev[q]))
         /\ Done(p) /\ Done(q)
         /\ resp[p].status = 200 /\ resp[q].status = 200
         /\ existing[p] # "unset" /\ existing[q] # "unset"

\* The delivery got past the feature flag, the body read and the
\* signature gate.
GatePassed(p) ==
    /\ Started(p)
    /\ TRIBUTE_ENABLED
    /\ ev[p] # 0
    /\ SignatureGate(ev[p], sig[p]) = "pass"

HandledNames == {"new_digital_product"} \cup SubscriptionNames

(* C11 as stated.  A delivery that passed the signature gate and whose     *)
(* body json.loads cannot decode (malformed JSON text, or bytes that are   *)
(* no UTF-8 text) is answered 400 invalid_json, enters no handler and has  *)
(* no effect.                                                              *)
C11_InvalidJsonRejected ==
    \A p \in Reqs :
        (GatePassed(p) /\ Event(p).doc \in {"malformed", "not_utf8"}) =>
            /\ Done(p)
            /\ resp[p] = [status |-> 400, text |-> "invalid_json"]
            /\ ~EnteredHandler(p)
            /\ NoEffects(p)

(* C12 as stated.  A delivery that passed the gates with a JSON object     *)
(* whose event name is none of new_digital_product and the four            *)
(* subscription names is answered 200, reads and writes nothing in the     *)
(* persistence layer, and calls no activation and no notification.         *)
C12_OtherEventsAcknowledged ==
    \A p \in Reqs :
        (GatePassed(p) /\ Event(p).doc = "object"
                       /\ Event(p).name \notin HandledNames) =>
            /\ Done(p)
            /\ resp[p].status = 200
            /\ ~EnteredHandler(p)
            /\ NoEffects(p)

(* C13 as stated.  A purchase or subscription event that passed the gates  *)
(* and whose telegram_user_id is absent or not integer-coercible is        *)
(* answered 400, and no User row, no PaymentRecord and no activation       *)
(* comes of it.                                                            *)
C13_BadUserIdRejected ==
    \A p \in Reqs :
        (GatePassed(p) /\ Event(p).doc = "object"
                       /\ Event(p).name \in HandledNames
                       /\ ~IntCoercible(Event(p).telegram_user_id)) =>
            /\ Done(p)
            /\ resp[p].status = 400
            /\ ~EnteredHandler(p)
            /\ NoEffects(p)

(* C14.  While TRIBUTE_ENABLED is false every delivery is answered 503     *)
(* tribute_disabled, whatever its body, signature and event name, enters   *)
(* no handler, and the persistence layer stays as it was.                  *)
C14_DisabledAnswers503 ==
    ~TRIBUTE_ENABLED =>
        /\ \A p \in Reqs :
              Started(p) =>
                  /\ Done(p)
                  /\ resp[p] = [status |-> 503, text |-> "tribute_disabled"]
                  /\ ~EnteredHandler(p)
                  /\ NoEffects(p)
        /\ users = {} /\ payments = <<>>
        /\ subscriptions = {} /\ bonuses = {}

\* With the feature disabled, a correctly signed purchase and a request
\* whose body cannot be read were both answered 503.
C14_Witness ==
    /\ ~TRIBUTE_ENABLED
    /\ \E p, q \in Reqs :
         /\ ev[p] = 1 /\ sig[p] = hexdigest(ProviderKey, 1)
         /\ Started(q) /\ ev[q] = 0
         /\ resp[p].status = 503 /\ resp[q].status = 503

\* The entries of links whose link text contains p<product_id> or
\* p/<product_id>.
MatchingEntries(links, product_id) ==
    {i \in DOMAIN links : LinkMatches(links[i].link, product_id)}

(* C15.  Under NormalizeSpec, for every link configuration and product     *)
(* identifier: _parse_months_from_product returns the months of the        *)
(* matching entry that comes first in configuration order, a match being a *)
(* link that contains p<product_id> or p/<product_id>, and returns 1 when  *)
(* no entry matches; with a single 1-month link that contains p10 and      *)
(* product_id 10 it returns 1.                                             *)
C15_FirstMatchWins ==
    (probe.fn = "_parse_months_from_product" /\ probe.called) =>
        LET M == MatchingEntries(probe.links, probe.product_id)
        IN  /\ M = {} => probe.result = 1
            /\ M # {} =>
                  \E i \in M : /\ \A j \in M : i <= j
                               /\ probe.result = probe.links[i].months
            /\ ( /\ probe.product_id = 10
                 /\ Len(probe.links) = 1
                 /\ probe.links[1].months = 1
                 /\ Contains(<<"p", "1", "0">>, probe.links[1].link) )
                  => probe.result = 1

\* Two entries match the product; the months of the earlier one came back,
\* and they are not the months of the later one nor the default.
C15_Witness ==
    /\ probe.fn = "_parse_months_from_product" /\ probe.called
    /\ \E i, j \in MatchingEntries(probe.links, probe.product_id) :
          /\ i < j
          /\ probe.result = probe.links[i].months
          /\ probe.result # 1

(* C16.  Under NormalizeSpec, for every period: the period-to-months       *)
(* mapping yields 1 for monthly, 3 for quarterly, 6 for half_yearly, 12    *)
(* for yearly and 1 for a period that is not in the table, is null or is   *)
(* absent; the months written to the payment record and the months passed  *)
(* to activation are the same whole number, at least 1, and 1 for weekly.  *)
C16_PeriodToMonths ==
    (probe.fn = "period_to_months" /\ probe.called) =>
        /\ probe.period = "monthly" => probe.months = Whole(1)
        /\ probe.period = "quarterly" => probe.months = Whole(3)
        /\ probe.period = "half_yearly" => probe.months = Whole(6)
        /\ probe.period = "yearly" => probe.months = Whole(12)
        /\ probe.period \in {"daily", "null", "absent"}
              => probe.months = Whole(1)
        /\ probe.written.den = 1 /\ probe.written.num >= 1
        /\ probe.activated = probe.written
        /\ probe.period = "weekly" => probe.written = Whole(1)
        /\ probe.period # "weekly" => probe.written = probe.months

\* A weekly period: the table gave a quarter of a month, 1 was written.
C16_Witness ==
    /\ probe.fn = "period_to_months" /\ probe.called
    /\ probe.period = "weekly"
    /\ probe.months = [num |-> 1, den |-> 4]
    /\ probe.written = Whole(1)

C18_StatusTransitions ==
    [][ /\ Len(payments') >= Len(payments)
        /\ \A i \in DOMAIN payments :
              /\ payments'[i].provider_payment_id
                    = payments[i].provider_payment_id
              /\ payments'[i].status # payments[i].status =>
                    /\ payments[i].status = "pending"
                    /\ payments'[i].status \in {"succeeded", "failed"} ]_vars

\* One record went from pending to failed, and a one-time record that was
\* created succeeded went through its handler's final commit.
C18_Witness ==
    \E p, q \in Reqs :
        /\ IsSubscription(p) /\ pid[p] # 0 /\ Done(p)
        /\ payments[pid[p]].status = "failed"
        /\ IsOneTime(q) /\ pid[q] # 0 /\ Done(q)
        /\ resp[q].status = 200
        /\ payments[pid[q]].status = "succeeded"

(* C19 as stated.  A delivery whose duplicate lookup found a PaymentRecord *)
(* is answered 200 and had no effect at all: it created no User row and no *)
(* PaymentRecord, called neither activation nor the referral bonus and     *)
(* sent no notification.                                                   *)
C19_DuplicateNoEffectAsStated ==
    \A p \in Reqs :
        existing[p] = "found" =>
            /\ Done(p)
            /\ resp[p].status = 200
            /\ NoEffects(p)

(* C19, amended.  A delivery whose duplicate lookup found a PaymentRecord  *)
(* is answered 200 and does nothing after the lookup: it creates no        *)
(* PaymentRecord, changes no status, calls neither activation nor the      *)
(* referral bonus and sends no notification.  The User row it created      *)
(* before the lookup, when its telegram_user_id was unknown, stays.        *)
C19_DuplicateNoFurtherEffect ==
    \A p \in Reqs :
        existing[p] = "found" =>
            /\ Done(p)
            /\ resp[p] = [status |-> 200, text |-> "OK"]
            /\ pid[p] = 0
            /\ lost[p] = {} /\ pend[p] = {}
            /\ ~ActivationCalled(p)
            /\ ~BonusCalled(p)
            /\ user_msg[p] = "unset"
            /\ admin_msg[p] = "unset"
            /\ created_user[p] => Tuid(p) \in UserIds

\* A duplicate that created a User row and one that created none.
C19_Witness ==
    \E p, q \in Reqs :
        /\ existing[p] = "found" /\ created_user[p]
        /\ resp[p].status = 200
        /\ pid[q] # 0
        /\ provider_payment_id(ev[p]) = provider_payment_id(ev[q])

(* C20 as stated.  A delivery that reached the notification step, its      *)
(* payment and activation being committed, is answered 200 whatever fails  *)
(* in that step, on both paths.                                            *)
C20_NotificationNeverChangesStatus ==
    \A p \in Reqs :
        (Done(p) /\ user_msg[p] # "unset") => resp[p].status = 200

(* C21.  A step of the notification (the message to the payer, the        *)
(* notification to the administrators, and the return that follows)        *)
(* leaves users, payments, activations and bonuses as they were, whether   *)
(* the sends succeed or fail.                                              *)
C21_NotificationLeavesStateUnchanged ==
    [][ (\E p \in Reqs : /\ pc[p] \in {"notify", "notify_admin"}
                         /\ pc'[p] # pc[p])
            => UNCHANGED db ]_vars

\* Both sends failed and the payment is still succeeded and activated.
C21_Witness ==
    \E p \in Reqs :
        /\ Done(p)
        /\ user_msg[p] = "failed" /\ admin_msg[p] = "failed"
        /\ payments[pid[p]].status = "succeeded"
        /\ pid[p] \in subscriptions

(* C22 as stated.  A message to the payer or a notification to the         *)
(* administrators is sent in a delivery only if activate_subscription      *)
(* returned an activated result in that delivery.                          *)
C22_NotifiedOnlyWhenActivated ==
    \A p \in Reqs :
        (user_msg[p] = "sent" \/ admin_msg[p] = "sent")
            => activation[p] = "activated"

\* Deliveries p and q are of events with one provider_payment_id.
SamePayment(p, q) ==
    /\ Dispatched(p) /\ Dispatched(q)
    /\ provider_payment_id(ev[p]) = provider_payment_id(ev[q])

(* C23.  Under SeqSpec: among the deliveries of one provider_payment_id at *)
(* most one attempts the message to the payer and at most one the          *)
(* notification to the administrators, so a failed send is not tried       *)
(* again; and a delivery whose message to the payer failed has gone on to  *)
(* the notification of the administrators.                                 *)
C23_AtMostOneNotification ==
    /\ \A p, q \in Reqs :
          (p # q /\ SamePayment(p, q)) =>
              /\ ~(user_msg[p] # "unset" /\ user_msg[q] # "unset")
              /\ ~(admin_msg[p] # "unset" /\ admin_msg[q] # "unset")
    /\ \A p \in Reqs :
          (Done(p) /\ user_msg[p] = "failed") => admin_msg[p] # "unset"

\* The message to the payer failed, the administrators were notified, and
\* the redelivery was a duplicate that sent nothing.
C23_Witness ==
    \E p, q \in Reqs :
        /\ Redelivered(p, q)
        /\ user_msg[p] = "failed" /\ admin_msg[p] = "sent"
        /\ existing[q] = "found"
        /\ user_msg[q] = "unset" /\ admin_msg[q] = "unset"

(* C24.  In every reachable state: a delivery is inside a handler only if  *)
(* it passed the feature flag, the body read, the signature gate and the   *)
(* JSON decoding; activate_subscription has been called only if the        *)
(* delivery's payment record is committed; a notification has been         *)
(* attempted only if the final commit is done, that is nothing of the      *)
(* delivery is pending or rolled back, an activated result is committed    *)
(* and the status is no longer pending.                                    *)
C24_Pipeline ==
    \A p \in Reqs :
        /\ EnteredHandler(p) =>
              (GatePassed(p) /\ Event(p).doc = "object")
        /\ ActivationCalled(p) =>
              /\ pid[p] \in DOMAIN payments
              /\ payments[pid[p]].provider_payment_id
                    = provider_payment_id(ev[p])
        /\ (user_msg[p] # "unset" \/ admin_msg[p] # "unset") =>
              /\ ActivationCalled(p)
              /\ pend[p] = {} /\ lost[p] = {}
              /\ activation[p] = "activated" => pid[p] \in subscriptions
              /\ payments[pid[p]].status # "pending"

\* A delivery went through all the stages.
C24_Witness ==
    \E p \in Reqs :
        /\ Done(p) /\ resp[p].status = 200
        /\ sig[p] = hexdigest(ProviderKey, ev[p]) /\ api_key = ProviderKey
        /\ activation[p] = "activated"
        /\ pid[p] \in subscriptions
        /\ user_msg[p] = "sent" /\ admin_msg[p] = "sent"

\* The delivery found no duplicate and its insert failed.
InsertFailed(p) == Done(p) /\ existing[p] = "absent" /\ pid[p] = 0

C26_SessionReleased ==
    \A p \in Reqs :
        Done(p) =>
            /\ pend[p] = {}
            /\ "activation" \in lost[p] => pid[p] \notin subscriptions
            /\ "bonus" \in lost[p] => pid[p] \notin bonuses
            /\ lost[p] \cap {"status_succeeded", "status_failed"} # {}
                  => payments[pid[p]].status = "pending"

\* A delivery was answered 500 after its session dropped an activation.
C26_Witness ==
    \E p \in Reqs :
        /\ Done(p) /\ resp[p].status = 500
        /\ "activation" \in lost[p]
        /\ pid[p] \notin subscriptions

C29_ReminderContained ==
    probe.fn = "schedule_not_connected_reminder" =>
        /\ probe.failure # "none" =>
              /\ probe.escaped = "none"
              /\ probe.logged
              /\ probe.at = "done"
              /\ probe.reminders = 0
        /\ probe.reminders <= 1
        /\ probe.reminders = 1 =>
              probe.devices_response
                  \in {"None", "empty_list", "empty_dict",
                       "dict_empty_list", "dict_no_list"}
        /\ probe.devices_response \in {"list", "dict_list"} =>
              (probe.at = "done" /\ probe.reminders = 0)

\* The lookup reported an empty device list and the send failed: logged,
\* nothing left the task.
C29_Witness ==
    /\ probe.fn = "schedule_not_connected_reminder"
    /\ probe.devices_response = "dict_empty_list"
    /\ probe.failure = "send"
    /\ probe.logged
    /\ probe.escaped = "none"

(* C30 as stated.  Under SeqSpec, the provider redelivering after each     *)
(* 5xx: once every delivery has been answered, an event that was           *)
(* acknowledged with 200, and whose activation calls either raised or      *)
(* activated, has a committed activation.                                  *)
C30_AcknowledgedMeansActivated ==
    \A p \in Reqs :
        ( /\ Dispatched(p) /\ Done(p)
          /\ resp[p].status = 200
          /\ \A q \in Reqs : pc[q] \in {"idle", "done"}
          /\ \A q \in Reqs :
                (Dispatched(q) /\ ev[q] = ev[p]) =>
                    activation[q] \in {"unset", "activated", "raised"} ) =>
            \E i \in PaymentsOf(provider_payment_id(ev[p])) :
                i \in subscriptions

(* C31.  In every reachable state, deliveries interleaving as they may: of *)
(* the deliveries that derive one provider_payment_id at most one has       *)
(* called activate_subscription.                                           *)
C31_ActivationAtMostOnce ==
    \A p, q \in Reqs :
        (p # q /\ SamePayment(p, q)) =>
            ~(ActivationCalled(p) /\ ActivationCalled(q))

\* Two deliveries of one body were in flight together and both missed the
\* record in the duplicate lookup; one inserted and called activation, the
\* other's insert was refused and it called nothing.
C31_Witness ==
    \E p, q \in Reqs :
        /\ p # q
        /\ ev[p] = ev[q]
        /\ existing[p] = "absent" /\ existing[q] = "absent"
        /\ ActivationCalled(p) /\ Done(p)
        /\ Done(q) /\ pid[q] = 0 /\ ~ActivationCalled(q)

(* C32 as stated.  Under SeqSpec, the provider redelivering after each     *)
(* 5xx: once every delivery has been answered and an event has been        *)
(* acknowledged with 200, so that the provider delivers it no more, no      *)
(* PaymentRecord of that event is still pending.                           *)
C32_NoRecordLeftPending ==
    \A p \in Reqs :
        ( /\ Dispatched(p) /\ Done(p)
          /\ IsSubscription(p)
          /\ resp[p].status = 200
          /\ \A q \in Reqs : pc[q] \in {"idle", "done"} ) =>
            \A i \in PaymentsOf(provider_payment_id(ev[p])) :
                payments[i].status # "pending"

\* Bodies a and b are distinct paid events: two purchases by different
\* telegram users or at different times, or the first payment of a
\* subscription and a renewal of the same subscription.
DistinctPaidEvents(a, b) ==
    LET x == EventList[a]
        y == EventList[b]
    IN  /\ x.doc = "object" /\ y.doc = "object"
        /\ \/ /\ x.name = "new_digital_product"
              /\ y.name = "new_digital_product"
              /\ \/ x.telegram_user_id # y.telegram_user_id
                 \/ x.created_at # y.created_at
           \/ /\ x.name \in {"newSubscription", "new_subscription"}
              /\ y.name \in {"renewedSubscription", "renewed_subscription"}
              /\ x.subscription_id = y.subscription_id

(* C33 as stated.  Under SeqSpec: when a delivery has committed its        *)
(* PaymentRecord and a later delivery that reaches the duplicate lookup     *)
(* carries a distinct paid event (a purchase by another telegram user or    *)
(* at another time, or a renewal of the subscription), the two derive       *)
(* different provider_payment_ids and the later one is not taken for a      *)
(* duplicate.                                                              *)
C33_DistinctEventsNotDuplicates ==
    \A p, q \in Reqs :
        ( /\ p < q
          /\ Dispatched(p) /\ Dispatched(q)
          /\ Done(p) /\ Done(q)
          /\ pid[p] # 0
          /\ existing[q] # "unset"
          /\ DistinctPaidEvents(ev[p], ev[q]) ) =>
            /\ provider_payment_id(ev[p]) # provider_payment_id(ev[q])
            /\ existing[q] # "found"

=============================================================================
